---- MODULE Spec2Model ----
(***************************************************************************)
(* A model of the tail-f backend: the SSH connection pool                  *)
(* (backend/ssh_manager.py, SSHConnectionPool), the remote file reader     *)
(* (RemoteFileReader), the security validator (backend/security.py) and    *)
(* the local tail generator (backend/log_core.py, LogManager.tail_file).   *)
(*                                                                         *)
(* Text (paths, commands, file content) is a sequence of one-character     *)
(* strings.  Coroutines are processes whose steps end at the awaits and    *)
(* yields of the code; everything between two suspension points of one     *)
(* coroutine is one atomic action, as on a single-threaded event loop.     *)
(***************************************************************************)
EXTENDS Integers, Sequences, FiniteSets, TLC

VARIABLES
    \* ---- SSHConnectionPool ----
    connections,  \* self.connections: server_id -> [client, last_used]
    lock,         \* self._lock: the task holding it, or NoTask
    hstate,       \* every SSHClient ever connected: "unused", "active", "dead", "closed"
    hsrv,         \* the server identity each SSHClient was connected to
    now,          \* time.time()
    \* ---- the coroutines (tasks) calling into the pool / the remote reader ----
    pc,           \* position of each task
    op,           \* the call each task is running
    srv,          \* server_config argument of the running call
    res,          \* value returned by get_connection to the task
    calls,        \* pool calls (get_connection, cleanup, close_all) that may still be started
    \* ---- the RemoteFileReader call in progress (tail_file, list_files, clear_file) ----
    rcalls,       \* remote reader calls that may still be started
    fpath,        \* file_path / directory argument
    args,         \* the other arguments of list_files: pattern, recursive
    fsize,        \* file_size once the size query has answered, else NoSize
    ret,          \* the value list_files / clear_file returned
    executed,     \* the command texts given to client.exec_command in this call, in order
    validated,    \* the command texts validate_command accepted in this call
    pathOk,       \* validate_path accepted the path in this call
    poolAsks,     \* get_connection calls made by this call
    chan,         \* stdout of the follow command: "none", "open", "eof"
    \* ---- the tail stream (remote or local) as its consumer sees it ----
    emitted,      \* the records yielded so far
    stream,       \* "none", "open", "ended", "cancelled"
    \* ---- the tailed local file and whoever writes it ----
    file,         \* content of the file at the tailed path
    fexists,      \* os.path.exists(file_path)
    writes,       \* writer operations that may still happen
    \* ---- LogManager ----
    files_map,    \* self.files_map: id -> source record
    \* ---- LogManager.tail_file on a local source ----
    lcalls,       \* local tail calls that may still be started
    lpc,          \* position of the generator
    cursor,       \* current_position
    fd,           \* fp, the file object open for reading
    flag,         \* file_modified (asyncio.Event)
    pending,      \* a call_soon_threadsafe(event_flag.set) queued by the watch thread
    observer,     \* the watchdog Observer: "none", "running", "stopped"
    follow,       \* where Following began: records yielded before it, first cursor,
                  \* and the offset the backlog replay had read up to
    \* ---- SecurityValidator called on its own ----
    vcall,        \* the call: function name, text argument, allowed_paths argument
    vres          \* the value it returned

poolVars == <<connections, lock, hstate, hsrv, now>>
taskVars == <<pc, op, srv, res, calls>>
callVars == <<rcalls, fpath, args, fsize, ret, executed, validated, pathOk, poolAsks, chan>>
streamVars == <<emitted, stream>>
remoteVars == <<rcalls, fpath, args, fsize, ret, executed, validated, pathOk, poolAsks, chan,
               emitted, stream>>
fileVars == <<file, fexists, writes>>
sessVars == <<lcalls, lpc, cursor, fd, flag, pending, observer, follow>>
localVars == <<file, fexists, writes, lcalls, lpc, cursor, fd, flag, pending, observer, follow>>
valVars == <<vcall, vres>>
mapVars == <<files_map>>
vars == <<connections, lock, hstate, hsrv, now, pc, op, srv, res, calls,
          rcalls, fpath, args, fsize, ret, executed, validated, pathOk, poolAsks, chan,
          emitted, stream,
          file, fexists, writes, lcalls, lpc, cursor, fd, flag, pending, observer, follow,
          vcall, vres, files_map>>

----------------------------------------------------------------------------
\* Bounds of the model.

\* number of calls started in one behaviour (also bounds the SSHClients created)
MaxCalls == 3
\* the clock runs from 0 to MaxTime
MaxTime == 2
\* SSHConnectionPool.timeout, in clock ticks of the model
IdleTimeout == 1
\* remote reader calls started in one behaviour
MaxRemoteCalls == 1
\* records a stream yields before the model stops feeding it lines
MaxRecords == 2
\* local tail calls started in one behaviour
MaxLocalCalls == 1
\* operations of the writer of the local file in one behaviour
MaxWrites == 3
\* longest content of the local file
MaxFileLen == 5
\* path segments joined into one validate_path argument
MaxPathSegs == 3
\* pieces concatenated into one validate_command argument
MaxCmdPieces == 3
\* the trailing window of the local backlog replay (1024 * 10 in the code),
\* scaled to the file lengths of the model
TailWindow == 4

Tasks == {"t1", "t2"}
NoTask == "none"
\* server identities, f"{host}:{port}"
Servers == {"A", "B"}
Handles == 1..MaxCalls
NoHandle == 0

----------------------------------------------------------------------------
\* Text: a str is a sequence of one-character strings.

StartsWith(s, p) == Len(p) <= Len(s) /\ SubSeq(s, 1, Len(p)) = p
EndsWith(s, p) == Len(p) <= Len(s) /\ SubSeq(s, Len(s) - Len(p) + 1, Len(s)) = p
\* p occurs in s (re.search of a literal pattern, the in operator)
Contains(s, p) == \E i \in 1..(Len(s) - Len(p) + 1) : SubSeq(s, i, i + Len(p) - 1) = p
HasChar(s, c) == \E i \in 1..Len(s) : s[i] = c
Last(s) == s[Len(s)]

UpperLetters == <<"A","B","C","D","E","F","G","H","I","J","K","L","M","N","O","P","Q","R","S","T","U","V","W","X","Y","Z">>
LowerLetters == <<"a","b","c","d","e","f","g","h","i","j","k","l","m","n","o","p","q","r","s","t","u","v","w","x","y","z">>
\* str.lower() of one character (what re.IGNORECASE compares)
LowerChar(c) ==
    IF \E i \in 1..26 : UpperLetters[i] = c
    THEN LowerLetters[CHOOSE i \in 1..26 : UpperLetters[i] = c]
    ELSE c
Lower(s) == [i \in 1..Len(s) |-> LowerChar(s[i])]

\* the characters str.strip() and str.split() treat as whitespace
Whitespace == {" ", "\t", "\n", "\r"}

\* str.strip()
RECURSIVE LStrip(_)
LStrip(s) == IF s # <<>> /\ s[1] \in Whitespace THEN LStrip(Tail(s)) ELSE s
RECURSIVE RStrip(_)
RStrip(s) == IF s # <<>> /\ s[Len(s)] \in Whitespace THEN RStrip(SubSeq(s, 1, Len(s) - 1)) ELSE s
Strip(s) == RStrip(LStrip(s))

\* str.split(sep) for a one-character separator
RECURSIVE SplitOn(_, _)
SplitOn(s, sep) ==
    IF ~HasChar(s, sep) THEN <<s>>
    ELSE LET i == CHOOSE k \in 1..Len(s) : s[k] = sep /\ \A j \in 1..(k - 1) : s[j] # sep
         IN <<SubSeq(s, 1, i - 1)>> \o SplitOn(SubSeq(s, i + 1, Len(s)), sep)

\* sep.join(parts)
RECURSIVE JoinWith(_, _)
JoinWith(parts, sep) ==
    IF parts = <<>> THEN <<>>
    ELSE IF Len(parts) = 1 THEN parts[1]
    ELSE parts[1] \o <<sep>> \o JoinWith(Tail(parts), sep)

Digits == <<"0","1","2","3","4","5","6","7","8","9">>
\* str(n) for an int
RECURSIVE DecStr(_)
DecStr(n) ==
    IF n < 0 THEN <<"-">> \o DecStr(0 - n)
    ELSE IF n < 10 THEN <<Digits[n + 1]>>
    ELSE DecStr(n \div 10) \o <<Digits[(n % 10) + 1]>>

----------------------------------------------------------------------------
\* SecurityValidator (backend/security.py)

\* the working directory of the backend process, which os.path.abspath prepends
Cwd == <<"/","o","p","t","/","a","p","p">>

\* os.path.normpath's loop over the components of the path
RECURSIVE NormComps(_, _, _)
NormComps(comps, acc, rooted) ==
    IF comps = <<>> THEN acc
    ELSE LET c == Head(comps) IN
         IF c = <<>> \/ c = <<".">> THEN NormComps(Tail(comps), acc, rooted)
         ELSE IF c # <<".",".">> \/ (~rooted /\ acc = <<>>) \/ (acc # <<>> /\ Last(acc) = <<".",".">>)
              THEN NormComps(Tail(comps), Append(acc, c), rooted)
         ELSE IF acc # <<>> THEN NormComps(Tail(comps), SubSeq(acc, 1, Len(acc) - 1), rooted)
         ELSE NormComps(Tail(comps), acc, rooted)

\* os.path.normpath (posixpath)
NormPath(path) ==
    IF path = <<>> THEN <<".">>
    ELSE LET slashes == IF ~StartsWith(path, <<"/">>) THEN 0
                        ELSE IF StartsWith(path, <<"/","/">>) /\ ~StartsWith(path, <<"/","/","/">>) THEN 2
                        ELSE 1
             body == JoinWith(NormComps(SplitOn(path, "/"), <<>>, slashes > 0), "/")
             out == [i \in 1..slashes |-> "/"] \o body
         IN IF out = <<>> THEN <<".">> ELSE out

\* os.path.abspath (posixpath): join with the cwd unless absolute, then normpath
AbsPath(path) ==
    IF StartsWith(path, <<"/">>) THEN NormPath(path)
    ELSE NormPath(Cwd \o <<"/">> \o path)

\* re.search(pattern, resolved_path, re.IGNORECASE) for each of DANGEROUS_PATTERNS;
\* the $ anchor matches at the end and before a final newline
AtEnd(s, p) == EndsWith(s, p) \/ EndsWith(s, p \o <<"\n">>)
MatchesDangerous(resolved) ==
    LET r == Lower(resolved) IN
    \/ Contains(r, <<".",".">>)
    \/ Contains(r, <<"/","e","t","c","/","s","h","a","d","o","w">>)
    \/ Contains(r, <<"/","e","t","c","/","p","a","s","s","w","d">>)
    \/ Contains(r, <<"/","r","o","o","t","/",".","s","s","h">>)
    \/ AtEnd(r, <<".","p","e","m">>)
    \/ AtEnd(r, <<".","k","e","y">>)
    \/ Contains(r, <<"/","p","r","o","c","/">>)
    \/ Contains(r, <<"/","s","y","s","/">>)

\* SecurityValidator.validate_path(path, allowed_paths)
ValidatePathPrefixOnly(path, allowed_paths) ==
    /\ allowed_paths # <<>>
    /\ \E i \in 1..Len(allowed_paths) :
          StartsWith(AbsPath(NormPath(path)), AbsPath(NormPath(allowed_paths[i])))
ValidatePath(path, allowed_paths) ==
    LET resolved_path == AbsPath(NormPath(path)) IN
    /\ ~MatchesDangerous(resolved_path)
    /\ allowed_paths # <<>>
    /\ \E i \in 1..Len(allowed_paths) :
          StartsWith(resolved_path, AbsPath(NormPath(allowed_paths[i])))

\* SecurityValidator.ALLOWED_COMMANDS
ALLOWED_COMMANDS ==
    { <<"t","a","i","l">>, <<"c","a","t">>, <<"h","e","a","d">>, <<"l","s">>, <<"f","i","n","d">> }

\* the backquote character (a TLA+ string cannot hold it)
Backquote == "BACKQUOTE"

\* the characters validate_command refuses anywhere in the command
DangerousChars == {";", "|", "&", "$", Backquote, ">", "<", "\n", "\r"}

\* command.strip().split()[0] if command.strip() else ""
RECURSIVE UntilWhitespace(_)
UntilWhitespace(s) ==
    IF s = <<>> \/ s[1] \in Whitespace THEN <<>> ELSE <<s[1]>> \o UntilWhitespace(Tail(s))
FirstToken(command) == UntilWhitespace(LStrip(command))

\* SecurityValidator.validate_command(command)
ValidateCommandTokenOnly(command) == FirstToken(command) \in ALLOWED_COMMANDS
ValidateCommand(command) ==
    /\ FirstToken(command) \in ALLOWED_COMMANDS
    /\ \A c \in DangerousChars : ~HasChar(command, c)

\* SecurityValidator.check_file_size(size, max_size)
CheckFileSizeNoLowerBound(size, max_size) == size <= max_size
CheckFileSize(size, max_size) == 0 <= size /\ size <= max_size

----------------------------------------------------------------------------
\* SSHConnectionPool

\* server_id in self.connections
InPool(s) == connections[s].client # NoHandle

\* transport = client.get_transport(); transport and transport.is_active()
\* (a probe that raises is swallowed and counts as not alive)
IsActive(h) == hstate[h] = "active"

\* the SSHClient a successful connect yields: the next unused one
NewHandle == CHOOSE h \in Handles : hstate[h] = "unused" /\ \A g \in Handles : g < h => hstate[g] # "unused"

\* who holds self._lock while get_connection awaits _create_connection:
\* the await sits inside the async-with block of self._lock
LockDuringCreateReleased(t) == NoTask
LockDuringCreate(t) == t

\* what get_connection does with a cached entry whose probe failed:
\* client.close(), then del self.connections[server_id]
DiscardDeadNoClose(s) ==
    /\ connections' = [connections EXCEPT ![s] = [client |-> NoHandle, last_used |-> 0]]
    /\ UNCHANGED hstate
DiscardDead(s) ==
    /\ hstate' = [hstate EXCEPT ![connections[s].client] = "closed"]
    /\ connections' = [connections EXCEPT ![s] = [client |-> NoHandle, last_used |-> 0]]

\* the pool after a live cached entry is handed out: conn_info['last_used'] = time.time()
RefreshEntryStale(s) == connections
RefreshEntry(s) == [connections EXCEPT ![s].last_used = now]

\* a task starts get_connection(server_config) and reaches the async-with of self._lock
StartGet(t, s) ==
    /\ pc[t] = "idle"
    /\ calls > 0
    /\ calls' = calls - 1
    /\ pc' = [pc EXCEPT ![t] = "gc_lock"]
    /\ op' = [op EXCEPT ![t] = "get"]
    /\ srv' = [srv EXCEPT ![t] = s]
    /\ res' = [res EXCEPT ![t] = NoHandle]
    /\ UNCHANGED <<poolVars, remoteVars, mapVars, valVars, localVars>>

\* get_connection, from acquiring the lock to its first suspension point:
\* the cached entry is probed; a live one is returned, a dead one discarded
GcReuse(t) ==
    /\ pc[t] = "gc_lock"
    /\ lock = NoTask
    /\ InPool(srv[t])
    /\ IsActive(connections[srv[t]].client)
    /\ connections' = RefreshEntry(srv[t])
    /\ res' = [res EXCEPT ![t] = connections[srv[t]].client]
    /\ pc' = [pc EXCEPT ![t] = "gc_ret"]
    /\ UNCHANGED <<lock, hstate, hsrv, now, op, srv, calls, remoteVars, mapVars, valVars, localVars>>

\* no usable entry: _create_connection raises before connecting (key file missing,
\* no password, unsupported auth method); get_connection returns None
GcCreateRefused(t) ==
    /\ pc[t] = "gc_lock"
    /\ lock = NoTask
    /\ ~(InPool(srv[t]) /\ IsActive(connections[srv[t]].client))
    /\ IF InPool(srv[t]) THEN DiscardDead(srv[t]) ELSE UNCHANGED <<connections, hstate>>
    /\ res' = [res EXCEPT ![t] = NoHandle]
    /\ pc' = [pc EXCEPT ![t] = "gc_ret"]
    /\ UNCHANGED <<lock, hsrv, now, op, srv, calls, remoteVars, mapVars, valVars, localVars>>

\* no usable entry: _create_connection hands client.connect to the executor and awaits it
GcCreateBegin(t) ==
    /\ pc[t] = "gc_lock"
    /\ lock = NoTask
    /\ ~(InPool(srv[t]) /\ IsActive(connections[srv[t]].client))
    /\ IF InPool(srv[t]) THEN DiscardDead(srv[t]) ELSE UNCHANGED <<connections, hstate>>
    /\ lock' = LockDuringCreate(t)
    /\ pc' = [pc EXCEPT ![t] = "gc_connect"]
    /\ UNCHANGED <<hsrv, now, op, srv, res, calls, remoteVars, mapVars, valVars, localVars>>

\* client.connect succeeded: the entry is inserted and the client returned
GcConnected(t) ==
    /\ pc[t] = "gc_connect"
    /\ hstate' = [hstate EXCEPT ![NewHandle] = "active"]
    /\ hsrv' = [hsrv EXCEPT ![NewHandle] = srv[t]]
    /\ connections' = [connections EXCEPT ![srv[t]] = [client |-> NewHandle, last_used |-> now]]
    /\ lock' = IF lock = t THEN NoTask ELSE lock
    /\ res' = [res EXCEPT ![t] = NewHandle]
    /\ pc' = [pc EXCEPT ![t] = "gc_ret"]
    /\ UNCHANGED <<now, op, srv, calls, remoteVars, mapVars, valVars, localVars>>

\* client.connect raised: logged, None returned, nothing cached
GcConnectFailed(t) ==
    /\ pc[t] = "gc_connect"
    /\ lock' = IF lock = t THEN NoTask ELSE lock
    /\ res' = [res EXCEPT ![t] = NoHandle]
    /\ pc' = [pc EXCEPT ![t] = "gc_ret"]
    /\ UNCHANGED <<connections, hstate, hsrv, now, op, srv, calls, remoteVars, mapVars, valVars, localVars>>

\* a direct caller of get_connection takes the result
GetDone(t) ==
    /\ pc[t] = "gc_ret"
    /\ op[t] = "get"
    /\ pc' = [pc EXCEPT ![t] = "idle"]
    /\ op' = [op EXCEPT ![t] = "none"]
    /\ UNCHANGED <<poolVars, srv, res, calls, remoteVars, mapVars, valVars, localVars>>

\* entries cleanup_idle_connections removes: idle longer than self.timeout
IdleEntries == {s \in Servers : InPool(s) /\ now - connections[s].last_used > IdleTimeout}

\* cleanup_idle_connections: no await inside the lock, so one step
CleanupIdle(t) ==
    /\ pc[t] = "idle"
    /\ calls > 0
    /\ lock = NoTask
    /\ calls' = calls - 1
    /\ hstate' = [h \in Handles |->
                    IF \E s \in IdleEntries : connections[s].client = h THEN "closed" ELSE hstate[h]]
    /\ connections' = [s \in Servers |->
                    IF s \in IdleEntries THEN [client |-> NoHandle, last_used |-> 0] ELSE connections[s]]
    /\ UNCHANGED <<lock, hsrv, now, pc, op, srv, res, remoteVars, mapVars, valVars, localVars>>

\* self.connections.clear()
PoolNotCleared == connections
PoolCleared == [s \in Servers |-> [client |-> NoHandle, last_used |-> 0]]

\* close_all: no await inside the lock, so one step
CloseAll(t) ==
    /\ pc[t] = "idle"
    /\ calls > 0
    /\ lock = NoTask
    /\ calls' = calls - 1
    /\ hstate' = [h \in Handles |->
                    IF \E s \in Servers : connections[s].client = h THEN "closed" ELSE hstate[h]]
    /\ connections' = PoolCleared
    /\ UNCHANGED <<lock, hsrv, now, pc, op, srv, res, remoteVars, mapVars, valVars, localVars>>

\* environment: the transport of a connected client stops being active
TransportDies(h) ==
    /\ hstate[h] = "active"
    /\ hstate' = [hstate EXCEPT ![h] = "dead"]
    /\ UNCHANGED <<connections, lock, hsrv, now, taskVars, remoteVars, mapVars, valVars, localVars>>

\* environment: time passes (the clock is read by pool calls only, so it is
\* advanced only while one may still start)
Tick ==
    /\ now < MaxTime
    /\ calls > 0
    /\ now' = now + 1
    /\ UNCHANGED <<connections, lock, hstate, hsrv, taskVars, remoteVars, mapVars, valVars, localVars>>

----------------------------------------------------------------------------
\* strip_ansi_codes (ssh_manager.py and log_core.py hold the same definition)

\* the escape character \x1B
Esc == "ESC"
\* the character classes of ANSI_ESCAPE_PATTERN: [0-?], [ -/], [@-~], [0-9;]
ParamChars == {"0","1","2","3","4","5","6","7","8","9",":",";","<","=",">","?"}
InterChars == {" ","!","\"","#","$","%","&","'","(",")","*","+",",","-",".","/"}
FinalChars == {"@","[","\\","]","^","_",Backquote,"{","|","}","~"}
                \cup {UpperLetters[i] : i \in 1..26} \cup {LowerLetters[i] : i \in 1..26}
SgrChars == {"0","1","2","3","4","5","6","7","8","9",";"}

\* length of the longest prefix of s made of characters of class
RECURSIVE Span(_, _)
Span(s, class) == IF s # <<>> /\ s[1] \in class THEN 1 + Span(Tail(s), class) ELSE 0

\* length of the match of ANSI_ESCAPE_PATTERN at the start of s, 0 if none:
\* ESC [ params intermediates final, else [ digits-or-semicolons m
AnsiMatch(s) ==
    LET rest == SubSeq(s, 3, Len(s))
        np == Span(rest, ParamChars)
        afterP == SubSeq(rest, np + 1, Len(rest))
        ni == Span(afterP, InterChars)
        afterI == SubSeq(afterP, ni + 1, Len(afterP))
        ns == Span(Tail(s), SgrChars)
    IN  IF Len(s) >= 2 /\ s[1] = Esc /\ s[2] = "[" /\ afterI # <<>> /\ afterI[1] \in FinalChars
        THEN 2 + np + ni + 1
        ELSE IF s # <<>> /\ s[1] = "[" /\ ns >= 1 /\ Len(s) >= ns + 2 /\ s[ns + 2] = "m"
        THEN ns + 2
        ELSE 0

\* ANSI_ESCAPE_PATTERN.sub('', text)
RECURSIVE strip_ansi_codes(_)
strip_ansi_codes(text) ==
    IF text = <<>> THEN <<>>
    ELSE IF AnsiMatch(text) > 0 THEN strip_ansi_codes(SubSeq(text, AnsiMatch(text) + 1, Len(text)))
    ELSE <<text[1]>> \o strip_ansi_codes(Tail(text))

----------------------------------------------------------------------------
\* The records a tail stream yields: {"data": ...}.  tag tells a line of the
\* file ("DATA") from the sentinels the code builds itself.

DataRec(text) == [tag |-> "DATA", text |-> text, size |-> 0, max |-> 0]
Sentinel(tag, text) == [tag |-> tag, text |-> text, size |-> 0, max |-> 0]
TooLargeRec(size, max) == [tag |-> "ERROR_TOO_LARGE", text |-> <<>>, size |-> size, max |-> max]

\* the bracketed prefix each record's text starts with ("" for a line of the file)
Prefix(r) ==
    CASE r.tag \in {"SECURITY_DENIED", "SECURITY_COMMAND"} -> "[SECURITY]"
      [] r.tag \in {"ERROR_CONNECT", "ERROR_TOO_LARGE", "ERROR_READ"} -> "[ERROR]"
      [] r.tag \in {"SYSTEM_NOT_FOUND", "SYSTEM_CONFIG", "SYSTEM_DISAPPEARED",
                    "SYSTEM_TRUNCATED", "SYSTEM_ERROR"} -> "[SYSTEM]"
      [] OTHER -> ""

----------------------------------------------------------------------------
\* RemoteFileReader (backend/ssh_manager.py)

\* the task that calls the remote reader
Caller == "t1"

VarLog == <<"/","v","a","r","/","l","o","g">>
\* the paths and directories requested in the model
PathLog == VarLog \o <<"/","a",".","l","o","g">>
PathPasswd == <<"/","e","t","c","/","p","a","s","s","w","d">>
PathInject == VarLog \o <<"/","a",";","i","d">>
RemotePaths == {PathLog, PathPasswd, PathInject}
\* the find patterns requested in the model
Patterns == {<<"*",".","l","o","g">>, <<"*","|","x">>}

\* server_config.get('allowed_paths', [])
AllowedPaths(s) == IF s = "A" THEN <<VarLog>> ELSE <<>>
\* server_config.get('max_file_size', 104857600)
DefaultMaxFileSize == 104857600
MaxFileSizeOf(s) == DefaultMaxFileSize
\* the trailing window tail_file reads first
HistoryWindow == 10240
\* list_files: max_files
max_files == 1000

\* what the remote stat may answer
StatSizes == {0 - 1, 0, 5, 20000, 104857600, 104857601, 524288000}
\* how many non-empty lines the remote find may print
FindCounts == {0, 2, 1000, 1001}
\* the lines a remote command's stdout may deliver ("" is end of file for readline)
RemoteLines == {<<"x","\n">>, <<"\n">>, <<" ","[","1","m","y"," ","\n">>, <<Esc,"[","3","1","m","z","\n">>, <<>>}
NoSize == 0 - 2
NoRet == [kind |-> "none", n |-> 0, ok |-> FALSE]

\* the command texts the reader builds
CmdCheck(path) == <<"s","t","a","t"," ","-","c"," ","%","s"," ">> \o path \o <<" ","2",">","/","d","e","v","/","n","u","l","l"," ","|","|"," ","e","c","h","o"," ","0">>
CmdHistory(read_size, path) == <<"t","a","i","l"," ","-","c"," ">> \o DecStr(read_size) \o <<" ">> \o path
CmdTail(path) == <<"t","a","i","l"," ","-","f"," ">> \o path
CmdFind(directory, pattern, recursive) ==
    <<"f","i","n","d"," ","'">> \o directory \o (IF recursive THEN <<"'"," ","-","t","y","p","e"," ","f"," ","-","n","a","m","e"," ","'">> ELSE <<"'"," ","-","m","a","x","d","e","p","t","h"," ","1"," ","-","t","y","p","e"," ","f"," ","-","n","a","m","e"," ","'">>) \o pattern \o <<"'">>
CmdTruncate(path) == <<"t","r","u","n","c","a","t","e"," ","-","s"," ","0"," ">> \o path

Min(a, b) == IF a <= b THEN a ELSE b

\* a call of the remote reader begins: its arguments are bound and its
\* per-call bookkeeping starts empty
BeginCall(t, s, path, a) ==
    /\ t = Caller
    /\ pc[t] = "idle"
    /\ rcalls > 0
    /\ rcalls' = rcalls - 1
    /\ srv' = [srv EXCEPT ![t] = s]
    /\ res' = [res EXCEPT ![t] = NoHandle]
    /\ fpath' = path
    /\ args' = a
    /\ fsize' = NoSize
    /\ executed' = <<>>
    /\ validated' = {}
    /\ pathOk' = ValidatePath(path, AllowedPaths(s))
    /\ chan' = "none"
    /\ UNCHANGED <<mapVars, valVars, localVars, poolVars, calls>>

\* a call that has returned
Returned(t, value) ==
    /\ ret' = value
    /\ pc' = [pc EXCEPT ![t] = "idle"]
    /\ op' = [op EXCEPT ![t] = "none"]

ListRet(n) == [kind |-> "list", n |-> n, ok |-> TRUE]
ClearRet(ok) == [kind |-> "clear", n |-> 0, ok |-> ok]

\* where tail_file goes after yielding a terminal record: it returns
AfterTerminalFallThrough(next) == next
AfterTerminal(next) == "rt_final"

NoArgs == [pattern |-> <<>>, recursive |-> FALSE]

\* tail_file up to its first suspension point: validate_path, then either the
\* [SECURITY] record or the await of get_connection
TailStart(t, s, path) ==
    /\ BeginCall(t, s, path, NoArgs)
    /\ op' = [op EXCEPT ![t] = "tail"]
    /\ ret' = NoRet
    /\ stream' = "open"
    /\ IF ValidatePath(path, AllowedPaths(s))
       THEN /\ emitted' = <<>>
            /\ pc' = [pc EXCEPT ![t] = "gc_lock"]
       ELSE /\ emitted' = <<Sentinel("SECURITY_DENIED", path)>>
            /\ pc' = [pc EXCEPT ![t] = AfterTerminal("gc_lock")]
    /\ poolAsks' = IF pc'[t] = "gc_lock" THEN 1 ELSE 0

\* get_connection answered: None gives the [ERROR] record, a client the size query
TailConnected(t) ==
    /\ pc[t] = "gc_ret"
    /\ op[t] = "tail"
    /\ IF res[t] = NoHandle
       THEN /\ emitted' = Append(emitted, Sentinel("ERROR_CONNECT", <<>>))
            /\ pc' = [pc EXCEPT ![t] = AfterTerminal("rt_stat")]
       ELSE /\ emitted' = emitted
            /\ pc' = [pc EXCEPT ![t] = "rt_stat"]
    /\ executed' = IF pc'[t] = "rt_stat" THEN Append(executed, CmdCheck(fpath)) ELSE executed
    /\ UNCHANGED <<mapVars, valVars, localVars, poolVars, op, srv, res, calls, rcalls, chan, fpath, args, fsize, ret,
                   validated, pathOk, poolAsks, stream>>

\* cmd_tail is built and validated, then run, or refused with a [SECURITY] record
FollowStart(t, ex) ==
    IF ValidateCommand(CmdTail(fpath))
    THEN /\ validated' = validated \cup {CmdTail(fpath)}
         /\ executed' = Append(ex, CmdTail(fpath))
         /\ emitted' = emitted
         /\ pc' = [pc EXCEPT ![t] = "rt_tail_exec"]
    ELSE /\ validated' = validated
         /\ executed' = ex
         /\ emitted' = Append(emitted, Sentinel("SECURITY_COMMAND", CmdTail(fpath)))
         /\ pc' = [pc EXCEPT ![t] = AfterTerminal("rt_tail_exec")]

\* the size query answered file_size: check_file_size, then the history read
\* (file_size > 0) or the follow command
TailStat(t, file_size) ==
    /\ pc[t] = "rt_stat"
    /\ fsize' = file_size
    /\ IF ~CheckFileSize(file_size, MaxFileSizeOf(srv[t]))
       THEN /\ emitted' = Append(emitted, TooLargeRec(file_size, MaxFileSizeOf(srv[t])))
            /\ pc' = [pc EXCEPT ![t] = AfterTerminal("rt_hist_exec")]
            /\ executed' = IF pc'[t] = "rt_hist_exec"
                           THEN Append(executed, CmdHistory(Min(file_size, HistoryWindow), fpath))
                           ELSE executed
            /\ UNCHANGED validated
       ELSE IF file_size > 0
       THEN /\ executed' = Append(executed, CmdHistory(Min(file_size, HistoryWindow), fpath))
            /\ pc' = [pc EXCEPT ![t] = "rt_hist_exec"]
            /\ UNCHANGED <<emitted, validated>>
       ELSE FollowStart(t, executed)
    /\ UNCHANGED <<mapVars, valVars, localVars, poolVars, op, srv, res, calls, rcalls, chan, fpath, args, ret,
                   pathOk, poolAsks, stream>>

\* the history command is running: its stdout is iterated
TailHistoryOpen(t) ==
    /\ pc[t] = "rt_hist_exec"
    /\ pc' = [pc EXCEPT ![t] = "rt_hist"]
    /\ UNCHANGED <<mapVars, valVars, localVars, poolVars, op, srv, res, calls, remoteVars>>

\* one line of the history: stripped, and yielded unless empty
TailHistoryLine(t, line) ==
    /\ pc[t] = "rt_hist"
    /\ line # <<>>
    /\ Strip(line) # <<>>
    /\ Len(emitted) < MaxRecords
    /\ emitted' = Append(emitted, DataRec(strip_ansi_codes(Strip(line))))
    /\ UNCHANGED <<mapVars, valVars, localVars, poolVars, taskVars, callVars, stream>>

\* the history is exhausted: on to the follow command
TailHistoryEnd(t) ==
    /\ pc[t] = "rt_hist"
    /\ FollowStart(t, executed)
    /\ UNCHANGED <<mapVars, valVars, localVars, poolVars, op, srv, res, calls, rcalls, chan, fpath, args, fsize, ret,
                   pathOk, poolAsks, stream>>

\* exec_command, int() or the stdout iteration raised inside the outer try:
\* one [ERROR] record, and the generator ends
TailRaised(t) ==
    /\ pc[t] \in {"rt_stat", "rt_hist_exec", "rt_hist", "rt_tail_exec"}
    /\ emitted' = Append(emitted, Sentinel("ERROR_READ", <<>>))
    /\ pc' = [pc EXCEPT ![t] = AfterTerminal(pc[t])]
    /\ UNCHANGED <<mapVars, valVars, localVars, poolVars, op, srv, res, calls, callVars, stream>>

\* the follow command is running: the read loop starts
TailFollowOpen(t) ==
    /\ pc[t] = "rt_tail_exec"
    /\ pc' = [pc EXCEPT ![t] = "rt_read"]
    /\ chan' = "open"
    /\ UNCHANGED <<mapVars, valVars, localVars, poolVars, op, srv, res, calls, rcalls, fpath, args, fsize, ret,
                   executed, validated, pathOk, poolAsks, streamVars>>

\* the follow command ends (tail exits, the file is missing, the session is
\* closed by the peer): its stdout is at end of file
FollowCommandExits ==
    /\ chan = "open"
    /\ chan' = "eof"
    /\ UNCHANGED <<mapVars, valVars, localVars, poolVars, taskVars, rcalls, fpath, args, fsize, ret,
                   executed, validated, pathOk, poolAsks, streamVars>>

\* stdout.readline returned a line: a non-empty stripped line is yielded, a
\* blank one is skipped, and the loop reads again
TailRead(t, line) ==
    /\ pc[t] = "rt_read"
    /\ chan = "open"
    /\ Strip(line) # <<>>
    /\ Len(emitted) < MaxRecords
    /\ emitted' = Append(emitted, DataRec(strip_ansi_codes(Strip(line))))
    /\ UNCHANGED <<mapVars, valVars, localVars, poolVars, taskVars, callVars, stream>>

\* where the loop goes after an empty read: await asyncio.sleep(0.1)
AfterEmptyReadEnds == "idle"
AfterEmptyRead == "rt_sleep"

\* stdout.readline returned "": the stdout of the follow command is at end of file
TailReadEmpty(t) ==
    /\ pc[t] = "rt_read"
    /\ chan = "eof"
    /\ pc' = [pc EXCEPT ![t] = AfterEmptyRead]
    /\ UNCHANGED <<mapVars, valVars, localVars, poolVars, op, srv, res, calls, callVars, streamVars>>

\* the sleep is over: the loop reads again
TailSleepDone(t) ==
    /\ pc[t] = "rt_sleep"
    /\ pc' = [pc EXCEPT ![t] = "rt_read"]
    /\ UNCHANGED <<mapVars, valVars, localVars, poolVars, op, srv, res, calls, callVars, streamVars>>

\* what the read loop yields when stdout.readline raises: the handler prints
\* and breaks, so nothing
ReadErrorRecordsWithSentinel == <<Sentinel("ERROR_READ", <<>>)>>
ReadErrorRecords == <<>>

\* stdout.readline raised: the loop is left and the generator ends
TailReadRaised(t) ==
    /\ pc[t] = "rt_read"
    /\ emitted' = emitted \o ReadErrorRecords
    /\ pc' = [pc EXCEPT ![t] = "idle"]
    /\ op' = [op EXCEPT ![t] = "none"]
    /\ stream' = "ended"
    /\ UNCHANGED <<mapVars, valVars, localVars, poolVars, srv, res, calls, callVars>>

\* the consumer asks for the next record after a terminal one: the generator returns
TailReturn(t) ==
    /\ pc[t] = "rt_final"
    /\ pc' = [pc EXCEPT ![t] = "idle"]
    /\ op' = [op EXCEPT ![t] = "none"]
    /\ stream' = "ended"
    /\ UNCHANGED <<mapVars, valVars, localVars, poolVars, srv, res, calls, callVars, emitted>>

\* the suspension points of tail_file after get_connection has answered
TailSuspended == {"rt_stat", "rt_hist_exec", "rt_hist", "rt_tail_exec", "rt_read", "rt_sleep",
                  "rt_final"}

\* the consumer detaches: the generator is closed or its task cancelled at the
\* await or yield it is suspended at.  tail_file has no finally block and no
\* handler for it: nothing is closed, and a readline running in the executor
\* keeps running
TailCancel(t) ==
    /\ op[t] = "tail"
    /\ pc[t] \in TailSuspended
    /\ pc' = [pc EXCEPT ![t] = "idle"]
    /\ op' = [op EXCEPT ![t] = "none"]
    /\ stream' = "cancelled"
    /\ UNCHANGED <<mapVars, valVars, localVars, poolVars, srv, res, calls, callVars, emitted>>

\* the channel of the follow command is open: exec_command(cmd_tail) returned
\* it, nothing in tail_file closes it, and it goes with its client (close, dead
\* transport)
FollowChannelOpen ==
    /\ chan = "open"
    /\ res[Caller] # NoHandle
    /\ hstate[res[Caller]] = "active"

\* list_files up to its first suspension point
ListStart(t, s, directory, pattern, recursive) ==
    /\ BeginCall(t, s, directory, [pattern |-> pattern, recursive |-> recursive])
    /\ IF ValidatePath(directory, AllowedPaths(s))
       THEN /\ pc' = [pc EXCEPT ![t] = "gc_lock"]
            /\ op' = [op EXCEPT ![t] = "list"]
            /\ ret' = NoRet
            /\ poolAsks' = 1
       ELSE /\ Returned(t, ListRet(0))
            /\ poolAsks' = 0
    /\ emitted' = <<>>
    /\ stream' = "none"

\* list_files after get_connection: the find command is built, validated and run
ListConnected(t) ==
    /\ pc[t] = "gc_ret"
    /\ op[t] = "list"
    /\ LET cmd == CmdFind(fpath, args.pattern, args.recursive) IN
       IF res[t] = NoHandle \/ ~ValidateCommand(cmd)
       THEN /\ Returned(t, ListRet(0))
            /\ UNCHANGED <<executed, validated>>
       ELSE /\ validated' = validated \cup {cmd}
            /\ executed' = Append(executed, cmd)
            /\ pc' = [pc EXCEPT ![t] = "rl_exec"]
            /\ UNCHANGED <<op, ret>>
    /\ UNCHANGED <<mapVars, valVars, localVars, poolVars, srv, res, calls, rcalls, chan, fpath, args, fsize, pathOk, poolAsks, streamVars>>

\* the descriptors collected from n non-empty lines of stdout: the loop stops
\* once line_count reaches max_files
CollectedAll(n) == n
Collected(n) == Min(n, max_files)

\* find printed n non-empty lines (and any number of empty ones): at most
\* max_files descriptors are collected; an exception gives the empty list
ListDone(t, n) ==
    /\ pc[t] = "rl_exec"
    /\ Returned(t, ListRet(Collected(n)))
    /\ UNCHANGED <<mapVars, valVars, localVars, poolVars, srv, res, calls, rcalls, chan, fpath, args, fsize, executed,
                   validated, pathOk, poolAsks, streamVars>>

\* clear_file up to its first suspension point
ClearStart(t, s, path) ==
    /\ BeginCall(t, s, path, NoArgs)
    /\ IF ValidatePath(path, AllowedPaths(s))
       THEN /\ pc' = [pc EXCEPT ![t] = "gc_lock"]
            /\ op' = [op EXCEPT ![t] = "clear"]
            /\ ret' = NoRet
            /\ poolAsks' = 1
       ELSE /\ Returned(t, ClearRet(FALSE))
            /\ poolAsks' = 0
    /\ emitted' = <<>>
    /\ stream' = "none"

\* clear_file after get_connection: the truncate command is run
ClearConnected(t) ==
    /\ pc[t] = "gc_ret"
    /\ op[t] = "clear"
    /\ IF res[t] = NoHandle
       THEN /\ Returned(t, ClearRet(FALSE))
            /\ UNCHANGED executed
       ELSE /\ executed' = Append(executed, CmdTruncate(fpath))
            /\ pc' = [pc EXCEPT ![t] = "rc_exec"]
            /\ UNCHANGED <<op, ret>>
    /\ UNCHANGED <<mapVars, valVars, localVars, poolVars, srv, res, calls, rcalls, chan, fpath, args, fsize, validated,
                   pathOk, poolAsks, streamVars>>

\* truncate answered: success iff nothing on stderr and no exception
ClearDone(t, ok) ==
    /\ pc[t] = "rc_exec"
    /\ Returned(t, ClearRet(ok))
    /\ UNCHANGED <<mapVars, valVars, localVars, poolVars, srv, res, calls, rcalls, chan, fpath, args, fsize, executed,
                   validated, pathOk, poolAsks, streamVars>>

----------------------------------------------------------------------------
\* LogManager's configured sources (backend/log_core.py)

\* self.files_map: the configured ids; "remote-nopath" is a remote log whose
\* configuration holds no path
FilesMap ==
    [id \in {"app", "remote-nopath"} |->
        IF id = "app"
        THEN [source |-> "local", haspath |-> TRUE, path |-> "app/x.log",
              encoding |-> "utf-8", server_config |-> "none"]
        ELSE [source |-> "remote", haspath |-> FALSE, path |-> "",
              encoding |-> "utf-8", server_config |-> "A"]]
\* the record a lookup would store for an id that is not configured
NoConf == [source |-> "local", haspath |-> FALSE, path |-> "",
           encoding |-> "utf-8", server_config |-> "none"]
\* self.files_map.get(file_name): the map after the lookup (dict.get stores nothing)
FilesMapAfterSetDefault(file_name) ==
    [id \in DOMAIN files_map \cup {file_name} |->
        IF id \in DOMAIN files_map THEN files_map[id] ELSE NoConf]
FilesMapAfterGet(file_name) == files_map

----------------------------------------------------------------------------
\* The tailed local file.  clear_log_async truncates it in place; appends,
\* removal and re-creation come from the process writing the log.

\* what the writer appends in one write
Chunks == { <<"a">>, <<"b","\n">>, <<" ","\n">> }
\* the content the file may have when the tail is requested
InitialFiles == { <<>>, <<"x","\n">>, <<"x","\n","y","z","\n">>, <<"x","y","\n","z","\n">> }

\* the open file object: where it was positioned, what it has read and handed out,
\* the content it keeps when the file is removed under it, and how many records
\* the stream held when it was opened
NoFd == [open |-> FALSE, start |-> 0, seen |-> <<>>, used |-> 0, detached |-> FALSE,
         old |-> <<>>, base |-> 0]

\* FileWatcher.on_modified / on_created: the watch thread queues event_flag.set
\* on the loop, while the observer runs
Notified == pending \/ observer = "running"

\* the writer appends chunk
AppendChunk(chunk) ==
    /\ writes > 0
    /\ fexists
    /\ Len(file) + Len(chunk) <= MaxFileLen
    /\ file' = file \o chunk
    /\ writes' = writes - 1
    /\ pending' = Notified
    /\ UNCHANGED <<fexists, lcalls, lpc, cursor, fd, flag, observer, follow,
                   mapVars, valVars, poolVars, taskVars, callVars, streamVars>>

\* clear_log_async on the local source: open(path, 'w') truncates the file
ClearLocal ==
    /\ writes > 0
    /\ fexists
    /\ file # <<>>
    /\ files_map' = FilesMapAfterGet("app")
    /\ "app" \in DOMAIN files_map /\ files_map["app"].source = "local"
    /\ file' = <<>>
    /\ writes' = writes - 1
    /\ pending' = Notified
    /\ UNCHANGED <<fexists, lcalls, lpc, cursor, fd, flag, observer, follow,
                   valVars, poolVars, taskVars, callVars, streamVars>>

\* the file is removed (rotation); a file object open on it keeps its content
Remove ==
    /\ writes > 0
    /\ fexists
    /\ fexists' = FALSE
    /\ file' = <<>>
    /\ fd' = IF fd.open /\ ~fd.detached THEN [fd EXCEPT !.detached = TRUE, !.old = file] ELSE fd
    /\ writes' = writes - 1
    /\ UNCHANGED <<lcalls, lpc, cursor, flag, pending, observer, follow,
                   mapVars, valVars, poolVars, taskVars, callVars, streamVars>>

\* a new, empty file appears at the path
Create ==
    /\ writes > 0
    /\ ~fexists
    /\ fexists' = TRUE
    /\ file' = <<>>
    /\ writes' = writes - 1
    /\ pending' = Notified
    /\ UNCHANGED <<lcalls, lpc, cursor, fd, flag, observer, follow,
                   mapVars, valVars, poolVars, taskVars, callVars, streamVars>>

\* the flag once the loop has run event_flag.set
FlagAfterLostSet == flag
FlagAfterSet == TRUE

\* the loop runs the queued event_flag.set
Deliver ==
    /\ pending
    /\ pending' = FALSE
    /\ flag' = FlagAfterSet
    /\ UNCHANGED <<fileVars, lcalls, lpc, cursor, fd, observer, follow,
                   mapVars, valVars, poolVars, taskVars, callVars, streamVars>>

----------------------------------------------------------------------------
\* LogManager.tail_file (backend/log_core.py)

\* the ids requested in the model
RequestIds == {"app", "remote-nopath", "unknown"}

NoFollow == [n |-> 0 - 1, off |-> 0, read |-> 0]

\* the file object reads the file it was opened on
View == IF fd.detached THEN fd.old ELSE file
\* offset of the file object in the file: everything up to it has been read
FdPos == fd.start + Len(fd.seen)
\* what was read from the file and not yet returned by readline
Unread == SubSeq(fd.seen, fd.used + 1, Len(fd.seen))
\* index of the first newline of s
NlIndex(s) == CHOOSE k \in 1..Len(s) : s[k] = "\n" /\ \A j \in 1..(k - 1) : s[j] # "\n"
\* fp.readline(): the buffered text up to its first newline; without one the
\* rest of the file is read, and at end of file what is there is returned
ReadChunk == IF HasChar(Unread, "\n") THEN <<>> ELSE SubSeq(View, FdPos + 1, Len(View))
ReadLineText ==
    LET avail == Unread \o ReadChunk
    IN IF HasChar(avail, "\n") THEN SubSeq(avail, 1, NlIndex(avail)) ELSE avail
FdAfterReadLine == [fd EXCEPT !.seen = fd.seen \o ReadChunk, !.used = fd.used + Len(ReadLineText)]

\* aiofiles.open(file_path, 'r') followed by seek(offset)
OpenAt(offset) == [open |-> TRUE, start |-> offset, seen |-> <<>>, used |-> 0,
                   detached |-> FALSE, old |-> <<>>, base |-> Len(emitted)]

\* the generator yields a terminal record and is suspended at that yield
LocalTerminal(rec) ==
    /\ emitted' = Append(emitted, rec)
    /\ lpc' = AfterTerminal(lpc)
    /\ fd' = NoFd

\* tail_file is called: the id is resolved and, for a local source, the path checked
LmTailStart(id) ==
    /\ lcalls > 0
    /\ lpc = "idle"
    /\ lcalls' = lcalls - 1
    /\ stream' = "open"
    /\ follow' = NoFollow
    /\ files_map' = FilesMapAfterGet(id)
    /\ IF id \notin DOMAIN files_map
       THEN /\ emitted' = <<Sentinel("SYSTEM_NOT_FOUND", <<>>)>>
            /\ lpc' = "rt_final"
       ELSE IF files_map[id].source = "remote"
       THEN /\ emitted' = <<Sentinel("SYSTEM_CONFIG", <<>>)>>
            /\ lpc' = "rt_final"
       ELSE IF ~fexists
       THEN /\ emitted' = <<Sentinel("SYSTEM_NOT_FOUND", <<>>)>>
            /\ lpc' = "rt_final"
       ELSE /\ emitted' = <<>>
            /\ lpc' = "lb_open"
    /\ UNCHANGED <<fileVars, cursor, fd, flag, pending, observer,
                   valVars, poolVars, taskVars, callVars>>

\* backlog replay: the file is opened; a missing file raises into the outer handler
BacklogOpen ==
    /\ lpc = "lb_open"
    /\ IF fexists
       THEN /\ fd' = OpenAt(0)
            /\ lpc' = "lb_size"
            /\ UNCHANGED emitted
       ELSE LocalTerminal(Sentinel("SYSTEM_ERROR", <<>>))
    /\ UNCHANGED <<fileVars, lcalls, cursor, flag, pending, observer, follow, stream,
                   mapVars, valVars, poolVars, taskVars, callVars>>

\* read_size = min(file_size, 1024 * 10)
ReadSizeWhole(file_size) == file_size
ReadSize(file_size) == Min(file_size, TailWindow)

\* backlog replay: os.path.getsize, then the seek to the trailing window
BacklogSize ==
    /\ lpc = "lb_size"
    /\ IF ~fexists
       THEN LocalTerminal(Sentinel("SYSTEM_ERROR", <<>>))
       ELSE /\ UNCHANGED emitted
            /\ IF Len(file) = 0
               THEN /\ fd' = NoFd
                    /\ lpc' = "lb_pos"
               ELSE /\ fd' = [fd EXCEPT !.start = Len(file) - ReadSize(Len(file))]
                    /\ lpc' = IF ReadSize(Len(file)) < Len(file) THEN "lb_skip" ELSE "lb_read"
    /\ follow' = [follow EXCEPT !.read = 0]
    /\ UNCHANGED <<fileVars, lcalls, cursor, flag, pending, observer, stream,
                   mapVars, valVars, poolVars, taskVars, callVars>>

\* backlog replay: the first line of the window, possibly partial, is read and dropped
BacklogSkip ==
    /\ lpc = "lb_skip"
    /\ fd' = FdAfterReadLine
    /\ lpc' = "lb_read"
    /\ UNCHANGED <<fileVars, lcalls, cursor, flag, pending, observer, follow, streamVars,
                   mapVars, valVars, poolVars, taskVars, callVars>>

\* the cursor after a read cycle: fp.tell() at end of file
CursorFromSize == Len(View)
CursorAfterRead == FdPos

\* one fp.readline() of the async-for loop, in the backlog replay or in a read
\* cycle: a non-empty stripped line is yielded, an empty one skipped, and at end
\* of file the loop ends (a read cycle then records fp.tell())
LocalRead ==
    /\ lpc \in {"lb_read", "lf_read"}
    /\ IF ReadLineText = <<>>
       THEN /\ fd' = NoFd
            /\ lpc' = IF lpc = "lb_read" THEN "lb_pos" ELSE "lf_wait"
            /\ cursor' = IF lpc = "lb_read" THEN cursor ELSE CursorAfterRead
            /\ follow' = IF lpc = "lb_read" THEN [follow EXCEPT !.read = FdPos] ELSE follow
            /\ UNCHANGED emitted
       ELSE /\ fd' = FdAfterReadLine
            /\ emitted' = IF Strip(ReadLineText) # <<>>
                          THEN Append(emitted, DataRec(strip_ansi_codes(Strip(ReadLineText))))
                          ELSE emitted
            /\ UNCHANGED <<lpc, cursor, follow>>
    /\ UNCHANGED <<fileVars, lcalls, flag, pending, observer, stream,
                   mapVars, valVars, poolVars, taskVars, callVars>>

\* after the backlog: current_position = os.path.getsize(file_path)
BacklogPosition ==
    /\ lpc = "lb_pos"
    /\ IF fexists
       THEN /\ cursor' = Len(file)
            /\ follow' = [n |-> Len(emitted), off |-> Len(file), read |-> follow.read]
            /\ lpc' = "lb_watch"
            /\ UNCHANGED <<emitted, fd>>
       ELSE /\ LocalTerminal(Sentinel("SYSTEM_ERROR", <<>>))
            /\ UNCHANGED <<cursor, follow>>
    /\ UNCHANGED <<fileVars, lcalls, flag, pending, observer, stream,
                   mapVars, valVars, poolVars, taskVars, callVars>>

\* observer.schedule(...); observer.start()
WatchStart ==
    /\ lpc = "lb_watch"
    /\ observer' = "running"
    /\ lpc' = "lf_wait"
    /\ UNCHANGED <<fileVars, lcalls, cursor, fd, flag, pending, follow, streamVars,
                   mapVars, valVars, poolVars, taskVars, callVars>>

\* wait_for(file_modified.wait(), 2.0) returns: the flag is cleared and a read cycle begins
Wake ==
    /\ lpc = "lf_wait"
    /\ flag
    /\ flag' = FALSE
    /\ lpc' = "lf_size"
    /\ UNCHANGED <<fileVars, lcalls, cursor, fd, pending, observer, follow, streamVars,
                   mapVars, valVars, poolVars, taskVars, callVars>>

\* wait_for times out: the file is checked for existence only, then the wait resumes
Timeout ==
    /\ lpc = "lf_wait"
    /\ ~flag
    /\ IF fexists
       THEN UNCHANGED <<emitted, lpc, fd>>
       ELSE LocalTerminal(Sentinel("SYSTEM_DISAPPEARED", <<>>))
    /\ UNCHANGED <<fileVars, lcalls, cursor, flag, pending, observer, follow, stream,
                   mapVars, valVars, poolVars, taskVars, callVars>>

\* except OSError: await asyncio.sleep(0.1); continue -- back to the wait
AfterOSErrorBreak == "rt_final"
AfterOSError == "lf_wait"

\* read cycle: new_size = os.path.getsize(file_path); a smaller size than the
\* cursor yields the truncation notice; OSError is swallowed (sleep, continue)
FollowSize ==
    /\ lpc = "lf_size"
    /\ IF ~fexists
       THEN /\ lpc' = AfterOSError
            /\ UNCHANGED emitted
       ELSE IF Len(file) < cursor
       THEN /\ emitted' = Append(emitted, Sentinel("SYSTEM_TRUNCATED", <<>>))
            /\ lpc' = "lf_trunc"
       ELSE /\ lpc' = "lf_open"
            /\ UNCHANGED emitted
    /\ UNCHANGED <<fileVars, lcalls, cursor, fd, flag, pending, observer, follow, stream,
                   mapVars, valVars, poolVars, taskVars, callVars>>

\* the cursor a read cycle continues with after the truncation notice
CursorKept == cursor
CursorAfterTruncation == 0

\* read cycle: (after the truncation notice the cursor is reset, then) the file
\* is opened and positioned at the cursor; OSError is swallowed (sleep, continue)
FollowOpen ==
    /\ lpc \in {"lf_open", "lf_trunc"}
    /\ cursor' = IF lpc = "lf_trunc" THEN CursorAfterTruncation ELSE cursor
    /\ IF fexists
       THEN /\ fd' = OpenAt(cursor')
            /\ lpc' = "lf_read"
       ELSE /\ fd' = NoFd
            /\ lpc' = AfterOSError
    /\ UNCHANGED <<fileVars, lcalls, flag, pending, observer, follow, streamVars,
                   mapVars, valVars, poolVars, taskVars, callVars>>

\* finally: observer.stop(); observer.join(timeout=1)
ObserverLeftRunning == observer
ObserverAfterExit == IF observer = "running" THEN "stopped" ELSE observer

\* an exception other than OSError in a read cycle: it leaves the loop through
\* the finally block, and the outer handler yields the terminal record
FollowRaised ==
    /\ lpc \in {"lf_size", "lf_trunc", "lf_open", "lf_read"}
    /\ observer' = ObserverAfterExit
    /\ LocalTerminal(Sentinel("SYSTEM_ERROR", <<>>))
    /\ UNCHANGED <<fileVars, lcalls, cursor, flag, pending, follow, stream,
                   mapVars, valVars, poolVars, taskVars, callVars>>

\* the consumer asks for the next record after a terminal one: the generator
\* leaves the loop, the finally block stops the observer, and it returns
LocalReturn ==
    /\ lpc = "rt_final"
    /\ lpc' = "idle"
    /\ stream' = "ended"
    /\ observer' = ObserverAfterExit
    /\ UNCHANGED <<fileVars, lcalls, cursor, fd, flag, pending, follow, emitted,
                   mapVars, valVars, poolVars, taskVars, callVars>>

\* the consumer detaches: GeneratorExit or CancelledError is raised at the
\* suspension point; the async-with closes the file object, the finally block
\* stops the observer, and the outer "except Exception" does not catch it
LocalCancel ==
    /\ lpc # "idle"
    /\ lpc' = "idle"
    /\ fd' = NoFd
    /\ observer' = ObserverAfterExit
    /\ stream' = "cancelled"
    /\ UNCHANGED <<fileVars, lcalls, cursor, flag, pending, follow, emitted,
                   mapVars, valVars, poolVars, taskVars, callVars>>

----------------------------------------------------------------------------
\* SecurityValidator (backend/security.py) called on its own

\* the arguments tried: paths built from segments, commands built from pieces
PathSegs ==
    { <<"v","a","r">>, <<"l","o","g">>, <<".",".">>, <<".">>, <<"a",".",".","b">>,
      <<"x",".","K","E","Y">> }
PathInputs ==
    { (IF rooted THEN <<"/">> ELSE <<>>) \o JoinWith(segs, "/") :
        segs \in UNION { [1..n -> PathSegs] : n \in 1..MaxPathSegs }, rooted \in BOOLEAN }
    \cup { <<>>, <<"/","/","v","a","r","/","/","l","o","g","/">>,
           <<"/","E","t","c","/","P","a","s","s","w","d">>,
           <<"/","v","a","r","/","l","o","g","s","/","x">> }
AllowedLists ==
    { <<>>, <<VarLog>>, <<VarLog \o <<"/">>>>, <<<<"/","s","r","v">>, <<"/","v","a","r","/",".","/","l","o","g">>>>,
      <<<<"l","o","g">>>> }
CmdPieces ==
    { <<"t","a","i","l">>, <<"l","s">>, <<"r","m">>, <<" ">>, <<"\n">>, <<";">>, <<"x">>, <<Backquote>> }
RECURSIVE Flatten(_)
Flatten(seqs) == IF seqs = <<>> THEN <<>> ELSE Head(seqs) \o Flatten(Tail(seqs))
CommandInputs ==
    { Flatten(pieces) : pieces \in UNION { [1..n -> CmdPieces] : n \in 0..MaxCmdPieces } }

NoVCall == [fn |-> "none", text |-> <<>>, allowed |-> <<>>]

\* validate_path(path, allowed_paths) is called
ValidatePathCall(path, allowed_paths) ==
    /\ vcall = NoVCall
    /\ vcall' = [fn |-> "validate_path", text |-> path, allowed |-> allowed_paths]
    /\ vres' = ValidatePath(path, allowed_paths)
    /\ UNCHANGED <<poolVars, taskVars, remoteVars, localVars, mapVars>>

\* validate_command(command) is called
ValidateCommandCall(command) ==
    /\ vcall = NoVCall
    /\ vcall' = [fn |-> "validate_command", text |-> command, allowed |-> <<>>]
    /\ vres' = ValidateCommand(command)
    /\ UNCHANGED <<poolVars, taskVars, remoteVars, localVars, mapVars>>

----------------------------------------------------------------------------
InitPoolState ==
    /\ connections = [s \in Servers |-> [client |-> NoHandle, last_used |-> 0]]
    /\ lock = NoTask
    /\ hstate = [h \in Handles |-> "unused"]
    /\ hsrv = [h \in Handles |-> "A"]
    /\ now = 0

InitTasks ==
    /\ pc = [t \in Tasks |-> "idle"]
    /\ op = [t \in Tasks |-> "none"]
    /\ srv = [t \in Tasks |-> "A"]
    /\ res = [t \in Tasks |-> NoHandle]

InitCall ==
    /\ fpath = <<>>
    /\ args = NoArgs
    /\ fsize = NoSize
    /\ ret = NoRet
    /\ executed = <<>>
    /\ validated = {}
    /\ pathOk = FALSE
    /\ poolAsks = 0
    /\ chan = "none"
    /\ emitted = <<>>
    /\ stream = "none"
    /\ vcall = NoVCall
    /\ vres = FALSE
    /\ files_map = FilesMap

\* no local tail is requested and nothing writes the local file
InitNoLocal ==
    /\ file = <<>>
    /\ fexists = TRUE
    /\ writes = 0
    /\ lcalls = 0
    /\ lpc = "idle"
    /\ cursor = 0
    /\ fd = NoFd
    /\ flag = FALSE
    /\ pending = FALSE
    /\ observer = "none"
    /\ follow = NoFollow

InitPool ==
    /\ InitPoolState
    /\ InitTasks
    /\ InitCall
    /\ InitNoLocal
    /\ calls = MaxCalls
    /\ rcalls = 0

InitRemote ==
    /\ InitPoolState
    /\ InitTasks
    /\ InitCall
    /\ InitNoLocal
    /\ calls = MaxCalls - 2
    /\ rcalls = MaxRemoteCalls

InitLocal ==
    /\ InitPoolState
    /\ InitTasks
    /\ InitCall
    /\ calls = 0
    /\ rcalls = 0
    /\ file \in InitialFiles
    /\ fexists = TRUE
    /\ writes = MaxWrites
    /\ lcalls = MaxLocalCalls
    /\ lpc = "idle"
    /\ cursor = 0
    /\ fd = NoFd
    /\ flag = FALSE
    /\ pending = FALSE
    /\ observer = "none"
    /\ follow = NoFollow

\* the steps of the pool's own calls, the tasks of starters making them
PoolSteps(starters) ==
    \/ \E t \in starters, s \in Servers : StartGet(t, s)
    \/ \E t \in Tasks : GcReuse(t)
    \/ \E t \in Tasks : GcCreateRefused(t)
    \/ \E t \in Tasks : GcCreateBegin(t)
    \/ \E t \in Tasks : GcConnected(t)
    \/ \E t \in Tasks : GcConnectFailed(t)
    \/ \E t \in Tasks : GetDone(t)
    \/ \E t \in starters : CleanupIdle(t)
    \/ \E t \in starters : CloseAll(t)

NextPool ==
    \/ PoolSteps(Tasks)
    \/ \E h \in Handles : TransportDies(h)
    \/ Tick

SpecPool == InitPool /\ [][NextPool]_vars

NextRemote ==
    \/ \E t \in Tasks, s \in Servers, path \in RemotePaths : TailStart(t, s, path)
    \/ \E t \in Tasks : TailConnected(t)
    \/ \E t \in Tasks, file_size \in StatSizes : TailStat(t, file_size)
    \/ \E t \in Tasks : TailHistoryOpen(t)
    \/ \E t \in Tasks, line \in RemoteLines : TailHistoryLine(t, line)
    \/ \E t \in Tasks : TailHistoryEnd(t)
    \/ \E t \in Tasks : TailRaised(t)
    \/ \E t \in Tasks : TailFollowOpen(t)
    \/ \E t \in Tasks, line \in RemoteLines : TailRead(t, line)
    \/ FollowCommandExits
    \/ \E t \in Tasks : TailReadEmpty(t)
    \/ \E t \in Tasks : TailSleepDone(t)
    \/ \E t \in Tasks : TailReadRaised(t)
    \/ \E t \in Tasks : TailReturn(t)
    \/ \E t \in Tasks : TailCancel(t)
    \/ \E t \in Tasks, s \in Servers, pattern \in Patterns, recursive \in BOOLEAN :
            ListStart(t, s, VarLog, pattern, recursive)
    \/ \E t \in Tasks : ListConnected(t)
    \/ \E t \in Tasks, n \in FindCounts : ListDone(t, n)
    \/ \E t \in Tasks, s \in Servers, path \in RemotePaths : ClearStart(t, s, path)
    \/ \E t \in Tasks : ClearConnected(t)
    \/ \E t \in Tasks, ok \in BOOLEAN : ClearDone(t, ok)
    \/ PoolSteps(Tasks \ {Caller})
    \/ \E h \in Handles : TransportDies(h)

SpecRemote == InitRemote /\ [][NextRemote]_vars

\* the steps of the local tail generator
SessionSteps ==
    \/ \E id \in RequestIds : LmTailStart(id)
    \/ BacklogOpen
    \/ BacklogSize
    \/ BacklogSkip
    \/ LocalRead
    \/ BacklogPosition
    \/ WatchStart
    \/ Wake
    \/ Timeout
    \/ FollowSize
    \/ FollowOpen
    \/ LocalReturn
    \/ Deliver

NextLocal ==
    \/ SessionSteps
    \/ FollowRaised
    \/ LocalCancel
    \/ \E chunk \in Chunks : AppendChunk(chunk)
    \/ ClearLocal
    \/ Remove
    \/ Create

SpecLocal == InitLocal /\ [][NextLocal]_vars

\* the local tail with a writer that only appends
NextAppend ==
    \/ SessionSteps
    \/ \E chunk \in Chunks : AppendChunk(chunk)

SpecAppend == InitLocal /\ [][NextAppend]_vars

\* the local tail whose consumer keeps reading and never detaches, beside a
\* writer that may stop at any time: the event loop runs every ready callback
\* (Deliver) and resumes the generator whenever it can go on (wait_for returns
\* or times out, the thread pool answers, the consumer asks for the next record)
NextFollow ==
    \/ SessionSteps
    \/ \E chunk \in Chunks : AppendChunk(chunk)
    \/ ClearLocal
    \/ Remove
    \/ Create

SpecLocalFair ==
    InitLocal /\ [][NextFollow]_vars /\ WF_vars(SessionSteps) /\ WF_vars(Deliver)

\* the validator alone, called once: no pool, reader or tail call is made
InitValidator ==
    /\ InitPoolState
    /\ InitTasks
    /\ InitCall
    /\ InitNoLocal
    /\ calls = 0
    /\ rcalls = 0

NextValidator ==
    \/ \E path \in PathInputs, allowed_paths \in AllowedLists : ValidatePathCall(path, allowed_paths)
    \/ \E command \in CommandInputs : ValidateCommandCall(command)

SpecValidator == InitValidator /\ [][NextValidator]_vars

\* every scenario: the pool alone, a remote reader call, a local tail
Init == InitPool \/ InitRemote \/ InitLocal
Next == NextPool \/ NextRemote \/ NextLocal
Spec == Init /\ [][Next]_vars

----------------------------------------------------------------------------
\* Properties of the connection pool (checked under SpecPool)

\* tasks whose client.connect for server s is in flight
Creating(s) == {t \in Tasks : pc[t] = "gc_connect" /\ srv[t] = s}

\* C3: for any interleaving of concurrent get_connection calls, at no time are
\* two session creations in flight for the same server identity; while one is
\* in flight every other caller for that identity is waiting for the lock or
\* has already returned.
C3_OneCreationInFlight ==
    \A s \in Servers :
        /\ Cardinality(Creating(s)) <= 1
        /\ \A t \in Creating(s) : \A u \in Tasks \ {t} : pc[u] \in {"idle", "gc_lock", "gc_ret"}

\* a second caller for the same identity waits while the first one connects
C3_Witness ==
    \E t \in Tasks, u \in Tasks :
        /\ t # u
        /\ srv[t] = srv[u]
        /\ pc[t] = "gc_connect"
        /\ pc[u] = "gc_lock"

\* C4: in no reachable state does a task hold the pool lock while a session
\* creation is in progress (so that get_connection for another server could
\* complete meanwhile).
C4_NoLockDuringCreation ==
    \A t \in Tasks : pc[t] = "gc_connect" => lock = NoTask

\* clients that were connected and not closed since
OpenHandles(s) == {h \in Handles : hsrv[h] = s /\ hstate[h] \in {"active", "dead"}}

\* C5: after any sequence of get_connection, cleanup_idle_connections and
\* close_all calls the pool holds at most one entry per server identity, and
\* there are never two open pool-created sessions for one identity: every open
\* session is the one the map holds, a replaced one having been closed first.
C5_OneOpenSessionPerServer ==
    \A s \in Servers :
        /\ Cardinality(OpenHandles(s)) <= 1
        /\ \A h \in OpenHandles(s) : connections[s].client = h

\* a dead entry was replaced: only two calls were made, both get_connection
\* for one server, the first client is closed and the second is in the map
C5_Witness ==
    /\ calls = MaxCalls - 2
    /\ hstate[1] = "closed"
    /\ hstate[2] = "active"
    /\ hsrv[1] = hsrv[2]
    /\ connections[hsrv[2]].client = 2

----------------------------------------------------------------------------
\* Properties of the remote reader (checked under SpecRemote)

\* C1: whenever validate_path rejects the path of a remote tail, the stream
\* yields exactly one record, prefixed [SECURITY], and then ends; the pool is
\* not asked for a connection and no remote command is executed.
C1_DeniedTailOnlySecurityRecord ==
    (stream # "none" /\ ~ValidatePath(fpath, AllowedPaths(srv[Caller]))) =>
        /\ emitted = <<Sentinel("SECURITY_DENIED", fpath)>>
        /\ Prefix(emitted[1]) = "[SECURITY]"
        /\ pc[Caller] = IF stream = "open" THEN "rt_final" ELSE "idle"
        /\ poolAsks = 0
        /\ executed = <<>>

\* Scenario B: /etc/passwd requested with allowed_paths = ["/var/log"]
C1_Witness ==
    /\ stream = "ended"
    /\ fpath = PathPasswd
    /\ AllowedPaths(srv[Caller]) = <<VarLog>>
    /\ emitted = <<Sentinel("SECURITY_DENIED", PathPasswd)>>

\* C2: every command text handed to exec_command has, earlier in the same
\* call, passed validate_command, and the path has passed validate_path.
C2_EveryCommandValidated ==
    \A i \in 1..Len(executed) : executed[i] \in validated /\ pathOk

\* C8: when the size the remote query reports exceeds max_file_size or is
\* negative, the stream yields exactly one [ERROR] record citing the size and
\* the maximum and then ends; only the size query was executed, neither the
\* history read nor the follow command.
C8_TooLargeEndsBeforeAnyTail ==
    (stream # "none" /\ fsize # NoSize /\ (fsize > MaxFileSizeOf(srv[Caller]) \/ fsize < 0)) =>
        /\ emitted = <<TooLargeRec(fsize, MaxFileSizeOf(srv[Caller]))>>
        /\ Prefix(emitted[1]) = "[ERROR]"
        /\ executed = <<CmdCheck(fpath)>>
        /\ pc[Caller] = IF stream = "open" THEN "rt_final" ELSE "idle"

\* Scenario C: 500 MB reported, 100 MB allowed
C8_Witness ==
    /\ stream = "ended"
    /\ fsize = 524288000
    /\ emitted = <<TooLargeRec(524288000, 104857600)>>

\* C10: every stream that ends by itself (not by its consumer detaching) has a
\* sentinel record as its last record; in particular a read exception in the
\* follow loop yields one terminal [ERROR] record.
C10_EndsWithSentinel ==
    stream = "ended" => (emitted # <<>> /\ Last(emitted).tag # "DATA")

----------------------------------------------------------------------------
\* Local tail

\* the records of the lines of text: each line stripped, the empty ones dropped
RECURSIVE LineRecords(_)
LineRecords(lines) ==
    IF lines = <<>> THEN <<>>
    ELSE (IF Strip(Head(lines)) # <<>>
          THEN <<DataRec(strip_ansi_codes(Strip(Head(lines))))>>
          ELSE <<>>) \o LineRecords(Tail(lines))

\* the lines of text that are complete, i.e. ended by a newline
CompleteLines(text) ==
    LET parts == SplitOn(text, "\n") IN SubSeq(parts, 1, Len(parts) - 1)

IsPrefixOf(s, t) == Len(s) <= Len(t) /\ SubSeq(t, 1, Len(s)) = s

\* C6: in Following, with a writer that only appends and a cursor that started
\* at a line boundary, the records emitted since Following began are the
\* completed non-empty lines appended since, in file order, none duplicated,
\* split into fragments or skipped (stated as safety: at every moment they are
\* a prefix of those lines).
C6_FollowEmitsCompletedLines ==
    (/\ follow.n >= 0
     /\ follow.off = 0 \/ file[follow.off] = "\n")
    => IsPrefixOf(SubSeq(emitted, follow.n + 1, Len(emitted)),
                  LineRecords(CompleteLines(SubSeq(file, follow.off + 1, Len(file)))))

TruncationNotice == Sentinel("SYSTEM_TRUNCATED", <<>>)

\* C7: a read cycle that finds the file smaller than the cursor emits the
\* truncation notice and goes on with the stream open; the cycle then resets
\* the cursor to 0 and reads from offset 0, and the content record that follows
\* the notice is the first non-empty line of the content read from offset 0
\* (as that content stands when the record is emitted).  Only the consumer
\* detaching, or an exception raised in the cycle, ends the stream there.
C7_TruncationStep ==
    /\ (lpc = "lf_size" /\ lpc' \notin {lpc, "idle", "rt_final"} /\ fexists /\ Len(file) < cursor)
          => /\ emitted' = Append(emitted, TruncationNotice)
             /\ lpc' = "lf_trunc"
             /\ stream' = "open"
    /\ (lpc = "lf_trunc" /\ lpc' \notin {lpc, "idle", "rt_final"})
          => /\ cursor' = 0
             /\ stream' = "open"
             /\ lpc' \in {"lf_read", "lf_wait"}
             /\ emitted' = emitted
    /\ (/\ lpc = "lf_read"
        /\ fd.base >= 1
        /\ emitted[fd.base] = TruncationNotice
        /\ cursor = 0
        /\ Len(emitted) = fd.base
        /\ lpc' = "lf_read"
        /\ emitted' # emitted)
          => /\ emitted' = Append(emitted, LineRecords(SplitOn(fd'.seen, "\n"))[1])
             /\ stream' = "open"
C7_TruncatedCycle ==
    (/\ lpc = "lf_read"
     /\ fd.base >= 1
     /\ emitted[fd.base] = TruncationNotice
     /\ cursor = 0)
    => /\ fd.start = 0
       /\ stream = "open"
C7_TruncationRestartsAtZero == []C7_TruncatedCycle /\ [][C7_TruncationStep]_vars

\* the file shrank under the cursor, the notice was emitted, and the same cycle
\* emitted a line of the new content
C7_Witness ==
    /\ lpc = "lf_read"
    /\ stream = "open"
    /\ fd.base >= 1
    /\ emitted[fd.base] = TruncationNotice
    /\ Len(emitted) > fd.base
    /\ emitted[fd.base + 1].tag = "DATA"

\* the sentinel records other than the truncation notice
IsTerminalSentinel(r) == r.tag \notin {"DATA", "SYSTEM_TRUNCATED"}

\* C9: in a local or remote stream a sentinel other than the truncation notice
\* is the last record, and once it is there the producer can only return (it is
\* suspended at the final yield, or the stream has ended or been dropped by its
\* consumer).
C9_SentinelTerminates ==
    \A i \in 1..Len(emitted) :
        IsTerminalSentinel(emitted[i]) =>
            /\ i = Len(emitted)
            /\ \/ stream \in {"ended", "cancelled"}
               \/ pc[Caller] = "rt_final"
               \/ lpc = "rt_final"

\* a stream that went on after the truncation notice and then ended on a
\* terminal sentinel
C9_Witness ==
    /\ stream = "ended"
    /\ Len(emitted) >= 2
    /\ IsTerminalSentinel(Last(emitted))
    /\ \E i \in 1..(Len(emitted) - 1) : emitted[i] = TruncationNotice

----------------------------------------------------------------------------
\* Cancellation

\* C11: once the consumer of a tail stream has detached, every resource the
\* session opened is released: the local file object is closed and the watch
\* stopped, and the channel of the remote follow command is closed.
C11_DetachReleasesResources ==
    stream = "cancelled" =>
        /\ ~fd.open
        /\ observer # "running"
        /\ ~FollowChannelOpen

\* C12: a local stream that has terminated, by the file disappearing, by an
\* exception in a read cycle or by its consumer detaching, has no running
\* watch: the observer is stopped on every way out of Following.
C12_NoWatchAfterTermination ==
    stream \in {"ended", "cancelled"} => observer # "running"

\* the file disappeared in Following, the stream ended, the observer is stopped
C12_Witness ==
    /\ stream = "ended"
    /\ observer = "stopped"
    /\ Last(emitted) = Sentinel("SYSTEM_DISAPPEARED", <<>>)

----------------------------------------------------------------------------
\* The pool, call by call

\* C13: get_connection that finds a cached entry with a live transport returns
\* that client, sets the entry's last_used to the current time, connects no new
\* client and leaves the other entries as they were; one that finds a cached
\* entry whose probe fails closes that client, removes the entry, and goes on to
\* create a session (or to fail creating it).
C13_ProbeStep ==
    \A t \in Tasks :
        (pc[t] = "gc_lock" /\ pc'[t] # "gc_lock" /\ InPool(srv[t])) =>
            LET s == srv[t]
                h == connections[s].client
            IN  /\ \A o \in Servers \ {s} : connections'[o] = connections[o]
                /\ \A g \in Handles \ {h} : hstate'[g] = hstate[g]
                /\ IF IsActive(h)
                   THEN /\ pc'[t] = "gc_ret"
                        /\ res'[t] = h
                        /\ connections'[s] = [client |-> h, last_used |-> now]
                        /\ hstate'[h] = "active"
                   ELSE /\ hstate'[h] = "closed"
                        /\ ~InPool(s)'
                        /\ \/ pc'[t] = "gc_connect"
                           \/ pc'[t] = "gc_ret" /\ res'[t] = NoHandle
C13_CachedEntryProbed == [][C13_ProbeStep]_vars

\* both tasks were handed the same client, some time after it was connected
C13_Witness ==
    /\ res["t1"] # NoHandle
    /\ res["t1"] = res["t2"]
    /\ \E s \in Servers : connections[s] = [client |-> res["t1"], last_used |-> now]
    /\ now > 0
    /\ Cardinality({h \in Handles : hstate[h] # "unused"}) = 1

\* C14: when creating the session fails in get_connection, before connecting
\* (key file, password, auth method) or in client.connect, the call returns
\* None at once, the pool holds no entry for that server, the entries of the
\* other servers are as before, no client was connected, and the lock is free.
C14_FailureStep ==
    \A t \in Tasks :
        (/\ pc[t] \in {"gc_lock", "gc_connect"}
         /\ pc'[t] = "gc_ret"
         /\ res'[t] = NoHandle) =>
            /\ ~InPool(srv[t])'
            /\ \A o \in Servers \ {srv[t]} : connections'[o] = connections[o]
            /\ \A h \in Handles : hstate'[h] = "active" => hstate[h] = "active"
            /\ lock' = NoTask
C14_FailedCreationCachesNothing == [][C14_FailureStep]_vars

\* get_connection returned None for one server while the other server's entry
\* is in the pool, and the lock is free
C14_Witness ==
    \E t \in Tasks :
        /\ pc[t] = "gc_ret"
        /\ op[t] = "get"
        /\ res[t] = NoHandle
        /\ ~InPool(srv[t])
        /\ \E o \in Servers \ {srv[t]} : InPool(o)
        /\ lock = NoTask

\* the idle timeout of each server's profile, kept with the entry as its
\* 'config'; server B allows a longer idle time than the pool-wide self.timeout
ProfileIdleTimeout(s) == IF s = "A" THEN IdleTimeout ELSE IdleTimeout + 1

\* C15: cleanup_idle_connections closes and removes exactly the entries idle
\* longer than the idle timeout of their own server profile, and leaves every
\* other entry, its client and its last_used, as it was.
C15_CleanupStep ==
    (\E t \in Tasks : CleanupIdle(t)) =>
        \A s \in Servers :
            IF InPool(s) /\ now - connections[s].last_used > ProfileIdleTimeout(s)
            THEN /\ ~InPool(s)'
                 /\ hstate'[connections[s].client] = "closed"
            ELSE /\ connections'[s] = connections[s]
                 /\ InPool(s) => hstate'[connections[s].client] = hstate[connections[s].client]
C15_ReapsByProfileTimeout == [][C15_CleanupStep]_vars

\* C16: close_all closes the client of every entry (an exception from close is
\* swallowed) and leaves the pool empty; it touches no client outside the
\* pool, so on an empty pool, as after a first close_all, it changes nothing.
C16_CloseAllStep ==
    (\E t \in Tasks : CloseAll(t)) =>
        /\ \A s \in Servers :
              /\ ~InPool(s)'
              /\ InPool(s) => hstate'[connections[s].client] = "closed"
        /\ \A h \in Handles :
              (\A s \in Servers : connections[s].client # h) => hstate'[h] = hstate[h]
        /\ (\A s \in Servers : ~InPool(s)) => <<connections, lock, hstate, hsrv, now>>' = <<connections, lock, hstate, hsrv, now>>
C16_CloseAllEmptiesPool == [][C16_CloseAllStep]_vars

\* two servers were connected and one close_all closed both clients
C16_Witness ==
    /\ now = 0
    /\ \A s \in Servers : ~InPool(s)
    /\ Cardinality({h \in Handles : hstate[h] = "closed"}) = 2
    /\ lock = NoTask

----------------------------------------------------------------------------
\* The validator

\* the canonical form validate_path works on
Canonical(path) == AbsPath(NormPath(path))

\* C17: validate_path returns false for every path when the allow-list is
\* empty, and for every path whose canonical form contains ".." or matches
\* another denylist pattern in any letter case, whatever the allow-list; it
\* returns true only if the canonical path starts with the canonical form of
\* some allowed prefix.
C17_ValidatePathFailsClosed ==
    vcall.fn = "validate_path" =>
        /\ vcall.allowed = <<>> => ~vres
        /\ Contains(Canonical(vcall.text), <<".",".">>) => ~vres
        /\ EndsWith(Lower(Canonical(vcall.text)), <<".","k","e","y">>) => ~vres
        /\ Contains(Lower(Canonical(vcall.text)), <<"/","e","t","c","/","p","a","s","s","w","d">>) => ~vres
        /\ MatchesDangerous(Canonical(vcall.text)) => ~vres
        /\ vres => \E i \in 1..Len(vcall.allowed) :
                      StartsWith(Canonical(vcall.text), Canonical(vcall.allowed[i]))

\* a path under an allowed prefix whose canonical form keeps "..": rejected
C17_Witness ==
    /\ vcall.fn = "validate_path"
    /\ vcall.allowed = <<VarLog>>
    /\ StartsWith(Canonical(vcall.text), VarLog)
    /\ Contains(Canonical(vcall.text), <<".",".">>)
    /\ ~vres

\* tok is the first whitespace-delimited token of command
IsFirstToken(command, tok) ==
    /\ tok # <<>>
    /\ \A k \in 1..Len(tok) : tok[k] \notin Whitespace
    /\ \E i \in 1..Len(command) :
          /\ \A k \in 1..(i - 1) : command[k] \in Whitespace
          /\ i + Len(tok) - 1 <= Len(command)
          /\ SubSeq(command, i, i + Len(tok) - 1) = tok
          /\ i + Len(tok) > Len(command) \/ command[i + Len(tok)] \in Whitespace

\* C18: validate_command returns true exactly when the first
\* whitespace-delimited token of the command is one of tail, cat, head, ls,
\* find and the text holds none of ; | & $ backquote > < newline
\* carriage-return; the empty and the all-whitespace command are rejected.
C18_ValidateCommandExact ==
    vcall.fn = "validate_command" =>
        /\ vres <=> /\ \E tok \in ALLOWED_COMMANDS : IsFirstToken(vcall.text, tok)
                    /\ \A i \in 1..Len(vcall.text) :
                          vcall.text[i] \notin {";", "|", "&", "$", Backquote, ">", "<", "\n", "\r"}
        /\ Strip(vcall.text) = <<>> => ~vres

\* an allow-listed command followed by a separator and more: rejected
C18_Witness ==
    /\ vcall.fn = "validate_command"
    /\ vcall.text = <<"l","s",";","r","m">> \/ vcall.text = <<"t","a","i","l"," ",";">>
    /\ ~vres

----------------------------------------------------------------------------
\* list_files and clear

\* C19: list_files returns at most 1000 descriptors however many lines the
\* find command prints; and when validate_path rejects the directory or
\* validate_command rejects the find command it returns the empty list and
\* executes no remote command.
C19_ListBoundedAndFailsClosed ==
    ret.kind = "list" =>
        /\ ret.n <= 1000
        /\ (\/ ~ValidatePath(fpath, AllowedPaths(srv[Caller]))
            \/ ~ValidateCommand(CmdFind(fpath, args.pattern, args.recursive)))
              => (ret.n = 0 /\ executed = <<>>)

\* find printed 1000 lines or more and list_files returned 1000 descriptors
C19_Witness ==
    /\ ret = ListRet(1000)
    /\ executed = <<CmdFind(fpath, args.pattern, args.recursive)>>

\* what the remote shell makes of a command text: the first simple command
\* ends at the first ; | & or newline, and its words are separated by blanks
RECURSIVE UntilSeparator(_)
UntilSeparator(cmd) ==
    IF cmd = <<>> \/ cmd[1] \in {";", "|", "&", "\n"} THEN <<>>
    ELSE <<cmd[1]>> \o UntilSeparator(Tail(cmd))
ShellWords(cmd) == SelectSeq(SplitOn(UntilSeparator(cmd), " "), LAMBDA w : w # <<>>)
\* the files "truncate -s 0 ..." sets to size 0: its operands
TruncateOperands(cmd) ==
    LET w == ShellWords(cmd) IN {w[i] : i \in 4..Len(w)}

\* C20: a clear that returns success has left the file at the given path with
\* size 0 (for a remote file: the truncate command that ran had that very file
\* as its operand); a clear whose path validate_path rejects returns failure
\* without asking for a connection or running a command, and so does one that
\* got no connection.
C20_ClearSucceedsOnlyIfEmptied ==
    ret.kind = "clear" =>
        /\ ret.ok => /\ executed = <<CmdTruncate(fpath)>>
                     /\ fpath \in TruncateOperands(executed[1])
        /\ ~pathOk => (~ret.ok /\ poolAsks = 0 /\ executed = <<>>)
        /\ (pathOk /\ res[Caller] = NoHandle) => (~ret.ok /\ executed = <<>>)

----------------------------------------------------------------------------
\* The configured sources

\* C21: whatever tail, clear, list and shutdown operations have run, files_map
\* holds exactly the configured ids and resolves each of them to the source
\* record built at construction (same path, encoding, locality and server).
C21_FilesMapNeverChanges ==
    /\ DOMAIN files_map = DOMAIN FilesMap
    /\ \A id \in DOMAIN FilesMap : files_map[id] = FilesMap[id]

\* a tail of an id that is not configured has been answered
C21_Witness ==
    /\ lcalls < MaxLocalCalls
    /\ emitted = <<Sentinel("SYSTEM_NOT_FOUND", <<>>)>>
    /\ fexists
    /\ stream = "ended"

----------------------------------------------------------------------------
\* Backlog replay

\* the trailing window of a file content, and what is left of it once its
\* first line is dropped
TrailingWindow(f) == SubSeq(f, Len(f) - Min(Len(f), TailWindow) + 1, Len(f))
AfterFirstLine(w) == IF HasChar(w, "\n") THEN SubSeq(w, NlIndex(w) + 1, Len(w)) ELSE <<>>
\* the records the backlog replay of a file content is to emit
BacklogRecords(f) ==
    LineRecords(SplitOn(IF Len(f) <= TailWindow THEN f ELSE AfterFirstLine(TrailingWindow(f)),
                        "\n"))

\* C22: as long as nothing has written to the file since the tail was
\* requested, the backlog replay of a file no larger than the trailing window
\* emits exactly its non-empty lines in order; of a larger file only the
\* trailing window is read, without its first line; an empty file emits
\* nothing; and the session then waits for changes with the stream open.
C22_BacklogReplay ==
    (writes = MaxWrites /\ fexists) =>
        /\ lpc \in {"lb_skip", "lb_read"} =>
               /\ fd.start = Len(file) - Min(Len(file), TailWindow)
               /\ IsPrefixOf(emitted, BacklogRecords(file))
        /\ lpc \in {"lb_pos", "lb_watch", "lf_wait"} =>
               /\ emitted = BacklogRecords(file)
               /\ stream = "open"
        /\ (lpc = "lf_wait" /\ file = <<>>) => emitted = <<>>

\* the replay of a file larger than the window has dropped the partial first
\* line of the window and the session waits for changes
C22_Witness ==
    /\ writes = MaxWrites
    /\ lpc = "lf_wait"
    /\ stream = "open"
    /\ file = <<"x","y","\n","z","\n">>
    /\ emitted = <<DataRec(<<"z">>)>>

----------------------------------------------------------------------------
\* The cursor of the local tail

\* the positions of the generator in Following
FollowingPcs == {"lf_wait", "lf_size", "lf_trunc", "lf_open", "lf_read"}

\* C23: in Following no step lowers current_position, except the reset to 0 of
\* a read cycle that found the file smaller than the cursor; a swallowed
\* OSError and a file shrinking while it is read leave it where it was or
\* further on.
C23_CursorStep ==
    lpc \in FollowingPcs =>
        \/ cursor' >= cursor
        \/ lpc = "lf_trunc" /\ cursor' = 0
C23_CursorMonotonic == [][C23_CursorStep]_vars

\* the file shrank below the cursor while a read cycle that began at an
\* advanced cursor has it open
C23_Witness ==
    /\ lpc = "lf_read"
    /\ fd.open /\ ~fd.detached
    /\ fd.start = cursor
    /\ cursor > follow.off
    /\ Len(file) < cursor

----------------------------------------------------------------------------
\* Following: the timeout of the bounded wait

\* the complete non-empty lines the file holds beyond the cursor
UnreadLines == LineRecords(CompleteLines(SubSeq(file, cursor + 1, Len(file))))

\* C24: a session waiting in Following while the file holds a complete line
\* beyond the cursor goes on to a read cycle (unless the file goes away or
\* loses the line), also when no notification arrives: the timeout of the
\* wait is enough.
C24_TimeoutPollsFile ==
    (lpc = "lf_wait" /\ fexists /\ UnreadLines # <<>>)
        ~> (lpc # "lf_wait" \/ ~fexists \/ UnreadLines = <<>>)

----------------------------------------------------------------------------
\* From the backlog replay to Following

\* C25: the cursor Following starts with is the offset up to which the backlog
\* replay read, whatever a concurrent writer appends between the end of that
\* read and the capture of the cursor (so nothing appended there is skipped).
C25_CursorStartsWhereBacklogEnded ==
    follow.n >= 0 => follow.off = follow.read

----------------------------------------------------------------------------
\* Following: the file disappears

DisappearedNotice == Sentinel("SYSTEM_DISAPPEARED", <<>>)

\* a read cycle that does not find the file goes back to the wait, emitting
\* nothing and leaving the stream open
C26_SwallowStep ==
    (lpc \in {"lf_size", "lf_trunc", "lf_open"} /\ ~fexists /\ lpc' # lpc)
        => /\ lpc' = "lf_wait"
           /\ emitted' = emitted
           /\ stream' = "open"
C26_AtMostOnce ==
    Cardinality({i \in 1..Len(emitted) : emitted[i] = DisappearedNotice}) <= 1
\* C26: with a consumer that keeps reading, a file that is missing while the
\* session is in Following and is not created again leads to a stream that has
\* ended with the disappearance notice as its last record; the notice is
\* emitted at most once, and a read cycle that does not find the file is
\* retried instead of ending the stream.
C26_DisappearanceEndsStream ==
    /\ (lpc \in FollowingPcs /\ ~fexists)
           ~> (fexists \/ (stream = "ended" /\ emitted # <<>> /\ Last(emitted) = DisappearedNotice))
    /\ []C26_AtMostOnce
    /\ [][C26_SwallowStep]_vars

\* the file went away during Following and the stream ended on the notice
C26_Witness ==
    /\ stream = "ended"
    /\ ~fexists
    /\ follow.n >= 0
    /\ emitted # <<>> /\ Last(emitted) = DisappearedNotice
    /\ observer = "stopped"

----------------------------------------------------------------------------
\* The remote follow loop

\* the positions of the remote generator in its follow loop
FollowLoopPcs == {"rt_read", "rt_sleep"}

\* C27: an empty read of the follow loop is followed by a sleep and another
\* read: the loop is left only by a read exception or by the consumer
\* detaching, and while the follow command's output is at end of file the
\* stream yields nothing and stays open unless one of the two happens.
C27_FollowLoopStep ==
    pc[Caller] \in FollowLoopPcs =>
        /\ pc'[Caller] \notin FollowLoopPcs => (TailReadRaised(Caller) \/ TailCancel(Caller))
        /\ (pc[Caller] = "rt_read" /\ chan = "eof" /\ pc'[Caller] \in FollowLoopPcs)
              => /\ pc'[Caller] \in {"rt_read", "rt_sleep"}
                 /\ emitted' = emitted
                 /\ stream' = "open"
        /\ (pc[Caller] = "rt_sleep" /\ pc'[Caller] # "rt_sleep" /\ pc'[Caller] \in FollowLoopPcs)
              => pc'[Caller] = "rt_read" /\ emitted' = emitted /\ stream' = "open"
C27_EmptyReadKeepsStreamOpen == [][C27_FollowLoopStep]_vars

\* the follow command has ended, a read came back empty and the loop sleeps
\* before it reads again, the stream still open
C27_Witness ==
    /\ chan = "eof"
    /\ op[Caller] = "tail"
    /\ pc[Caller] = "rt_sleep"
    /\ stream = "open"

----------------------------------------------------------------------------
\* The change signal

\* a change signal is raised: queued on the loop by the watch thread, or set
Signalled == flag \/ pending

\* C28: no wake-up is lost.  A raised signal goes away only by the session's
\* clear, which begins a read cycle; a queued event_flag.set leaves the flag
\* set, also when it runs after that clear, so a further cycle follows; and a
\* read cycle that reads the file ends with the cursor at or beyond the end of
\* the file as it stands then, which holds everything written before the clear.
C28_SignalStep ==
    /\ (Signalled /\ ~Signalled') => (lpc = "lf_wait" /\ lpc' = "lf_size")
    /\ (pending /\ ~pending') => flag'
    /\ (lpc = "lf_wait" /\ flag /\ lpc' # lpc /\ lpc' # "idle") => (lpc' = "lf_size" /\ ~flag')
    /\ (lpc = "lf_read" /\ lpc' = "lf_wait" /\ ~fd.detached) => cursor' >= Len(file)
C28_NoLostWakeup == [][C28_SignalStep]_vars

\* a notification was delivered after the clear, while the read cycle the
\* clear began is still reading
C28_Witness ==
    /\ lpc = "lf_read"
    /\ fd.open
    /\ flag
    /\ ~pending

----------------------------------------------------------------------------
\* Idle cleanup and the streams that use the pool

\* a remote tail stream is in its follow loop on a live pooled handle
FollowingOnLiveHandle ==
    /\ op[Caller] = "tail"
    /\ pc[Caller] \in FollowLoopPcs
    /\ stream = "open"
    /\ res[Caller] # NoHandle
    /\ hstate[res[Caller]] = "active"

\* C29: cleanup_idle_connections does not close the handle a remote tail
\* stream is following on, however long the stream has been following
\* without a new get_connection for that server.
C29_CleanupStep ==
    ((\E t \in Tasks : CleanupIdle(t)) /\ FollowingOnLiveHandle)
        => hstate'[res[Caller]] = "active"
C29_CleanupSparesHandleInUse == [][C29_CleanupStep]_vars

----------------------------------------------------------------------------
\* The allow-list and path components

\* canonical path p is the directory a itself or lies beneath it
IsWithin(p, a) ==
    \/ p = a
    \/ a = <<"/">> /\ StartsWith(p, a)
    \/ StartsWith(p, a \o <<"/">>)

\* C30: validate_path accepts a path only if its canonical form is an allowed
\* prefix itself or lies beneath one at a path-component boundary; a sibling
\* whose name merely extends an allowed prefix is rejected.
C30_AcceptsOnlyWithinAllowedDirectory ==
    (vcall.fn = "validate_path" /\ vres) =>
        \E i \in 1..Len(vcall.allowed) :
            IsWithin(Canonical(vcall.text), Canonical(vcall.allowed[i]))

====
